---- MODULE Spec2Model ----
(***************************************************************************)
(* Model of the assistant processor (src/implementations/openai_provider.py *)
(* behind the facade of src/processor_2.py): the run poller start_run, the  *)
(* tool dispatcher submit_tool_outputs / execute_function_call, the retry   *)
(* wrapper retry_manager as used by get_assistant_response, and the message *)
(* lookup _try_get_latest_assistant_message.  The remote assistant service  *)
(* is an environment whose answers are fixed by a scenario chosen when an   *)
(* operation is called.                                                     *)
(***************************************************************************)
EXTENDS Integers, Sequences, FiniteSets, TLC

VARIABLES
    function_registry, \* config.function_registry: the names the caller registered
    op,                \* the public operation in progress, or "idle"
    pc,                \* the position inside the operation
    result,            \* the value returned to the caller
    raised,            \* TRUE when an exception escaped to the caller
    remoteLog,         \* the remote calls made by the operation, in order
    sleepLog,          \* the durations of the asyncio.sleep calls, in order
    thread,            \* the thread / thread_id argument of the operation
    statuses,          \* scenario: the run statuses the service reports, in order
    failAt,            \* scenario: the remote call (by number) that fails; 0 = none
    run,               \* start_run / submit_tool_outputs: the local variable run
    pending,           \* scenario: the tool calls the run asks outputs for
    tool_calls,        \* submit_tool_outputs: the argument tool_calls
    tool_outputs,      \* submit_tool_outputs: the local list tool_outputs
    function_name,     \* execute_function_call: the argument function_name
    arguments,         \* execute_function_call: the argument arguments
    max_retries,       \* get_assistant_response: the argument max_retries
    retries,           \* retry_manager: the local counter retries
    attempts,          \* number of invocations of the wrapped operation
    baseListing,       \* scenario: the thread's listed messages before the reply
    replyAfter,        \* scenario: the reply is listed from listing replyAfter+1 on
    lastListing,       \* the listing the last message lookup received
    opError,           \* the error the last message lookup raised, or "none"
    wrapperError,      \* the error retry_manager ended with, or "none"
    via,               \* the object called: the implementation or the facade
    given,             \* the max_retries the caller wrote, Omitted when left out
    first,             \* the outcome of the same call made on the facade before
    resolveError,      \* the error get_assistant_processor raised, or "none"
    remoteThreads,     \* scenario: the ids of the threads the service holds
    content,           \* create_message: the argument content
    new_messages,      \* setup_new_thread: the argument messages
    message,           \* create_message: the local variable message
    provider,          \* AssistantProcessor(config): config.provider
    constructed,       \* the implementation classes instantiated, in order
    assistant_processor_implementations,
                       \* test_lib: the module's dict, provider name -> class
    custom_processors, \* test_lib.AssistantProcessor(...): custom_processors
    model,             \* test_lib.AssistantProcessor(...): model
    suppliedLog        \* the custom_processors arguments supplied so far, in order

vars == <<function_registry, op, pc, result, raised, remoteLog, sleepLog, thread,
          statuses, failAt, run, pending, tool_calls, tool_outputs,
          function_name, arguments, max_retries, retries, attempts, baseListing,
          replyAfter, lastListing, opError, wrapperError, via, given, first,
          resolveError, remoteThreads, content, new_messages, message, provider,
          constructed, assistant_processor_implementations, custom_processors,
          model, suppliedLog>>

----------------------------------------------------------------------------
(* Bounds of the model *)

MaxScript == 5      \* longest scenario of run statuses
MaxRemote == 6      \* most remote calls one operation is followed for
MaxBatch == 2       \* most tool calls in one batch
MaxN == 3           \* largest max_retries tried
MaxMsgs == 2        \* most messages in the thread before the reply
MaxReplyAfter == 2  \* latest listing after which the reply appears
MaxConstructions == 3   \* most constructions of test_lib.AssistantProcessor
MaxFacadeScript == 2 \* longest scenario of run statuses tried on the facade

----------------------------------------------------------------------------
(* Program constants *)

retry_delay == 2    \* retry_manager(delay=2)
ImplDefaultMaxRetries == 5    \* OpenAIAssistantImpl.get_assistant_response
FacadeDefaultMaxRetries == 3  \* AssistantProcessor.get_assistant_response
poll_interval == 1  \* asyncio.sleep(1) in start_run

----------------------------------------------------------------------------
(* Values *)

NoneVal == [kind |-> "None"]

IntVal(n) == [kind |-> "int", val |-> n]

RunObj(s) == [kind |-> "Run", id |-> "run_1", status |-> s]

MessageObj(i, r) == [kind |-> "Message", id |-> i, role |-> r]

\* A thread_id string, as start_run receives it.
ThreadId(t) == [kind |-> "str", value |-> t]

\* A Thread object, as submit_tool_outputs declares it.
ThreadObj(t) == [kind |-> "Thread", id |-> t]

ThreadNames == {"thread_a"}

NonTerminal == {"queued", "in_progress", "requires_action"}

Terminal == {"completed", "failed", "expired"}

RunStatus == NonTerminal \cup Terminal

\* The scenarios of run statuses: a run leaves a terminal status never, so a
\* terminal status is the last one of a scenario.
StatusScripts ==
    UNION { { s \in [1..n -> RunStatus] :
                \A i \in 1..(n-1) : s[i] \in NonTerminal } : n \in 1..MaxScript }

FunctionNames == {"add", "missing_fn"}

Registries == {{}, {"add"}}

ArgumentSets == {[a |-> 2, b |-> 3], [a |-> 7, b |-> 5]}

ToolCallIds == 1..MaxBatch

\* The batches of tool calls: tool calls of one batch have distinct ids.
Batches ==
    UNION { { b \in [1..k -> [id : ToolCallIds, name : FunctionNames,
                              arguments : {[a |-> 2, b |-> 3]}]] :
                \A i, j \in 1..k : i # j => b[i].id # b[j].id } : k \in 0..MaxBatch }

\* The batches a caller hands to submit_tool_outputs: their tool calls carry
\* complete arguments or arguments that lack the operand b.
DirectBatches ==
    UNION { { b \in [1..k -> [id : ToolCallIds, name : FunctionNames,
                              arguments : {[a |-> 2, b |-> 3], [a |-> 2]}]] :
                \A i, j \in 1..k : i # j => b[i].id # b[j].id } : k \in 0..MaxBatch }

\* The tool calls a run may ask outputs for: none unless it requires action.
PendingFor(s) ==
    IF \E i \in 1..Len(s) : s[i] = "requires_action" THEN Batches ELSE {<<>>}

Roles == {"user", "assistant"}

\* The listings of a thread before the reply: message i of the listing has id i.
Listings ==
    UNION { { [i \in 1..n |-> MessageObj(i, r[i])] : r \in [1..n -> Roles] }
            : n \in 0..MaxMsgs }

Never == MaxReplyAfter + MaxN + ImplDefaultMaxRetries + 1

\* The objects a caller calls an operation on.
Routes == {"impl", "facade"}

\* The max_retries argument left out of the call.
Omitted == 0 - 1

\* The max_retries a caller may write.
GivenRetries == (0..MaxN) \cup {Omitted}

\* The thread_id arguments of get_or_create_thread: None, the id of a thread
\* the service may hold, an id it never holds.
ThreadIdArguments == {NoneVal, ThreadId("thread_a"), ThreadId("thread_x")}

\* The sets of threads the service may hold.
RemoteThreadSets == {{}, {"thread_a"}}

\* The content of a message a caller writes.
Contents == {"hello"}

\* A message handed to setup_new_thread: its role and its content blocks, the
\* texts of which are all that is read.
GivenMessages ==
    [kind : {"Message"}, role : Roles, content : {<<>>, <<"hello">>}]

\* The lists of messages handed to setup_new_thread.
MessageLists == UNION { [1..n -> GivenMessages] : n \in 0..MaxMsgs }

\* The message the service creates for create_message.
CreatedMessage(c) ==
    [kind |-> "Message", id |-> "msg_new", role |-> "user", content |-> <<c>>]

\* processor_implementations of processor_2.py: provider name -> class.
processor_implementations == [n \in {"openai"} |-> "OpenAIAssistantImpl"]

\* The provider names a configuration may carry.
ProviderNames == {"openai", "other"}

\* assistant_processor_implementations of test_lib.py as the module is loaded.
DefaultImplementations == [n \in {"openai"} |-> "AssistantTestImpl"]

\* The provider names used with test_lib.AssistantProcessor.
TestProviderNames == {"openai", "custom"}

\* The implementation classes a caller supplies as custom processors.
CustomClasses == {"CustomA", "CustomB"}

\* A Mapping passed as custom_processors.
Mapping(entries) == [kind |-> "Mapping", entries |-> entries]

\* The custom_processors arguments: None, or a mapping of some provider names
\* to custom classes (the empty mapping included).
CustomProcessorArguments ==
    {NoneVal} \cup
    { Mapping(e) : e \in UNION { [D -> CustomClasses] : D \in SUBSET TestProviderNames } }

Models == {"gpt"}

\* The scenarios of run statuses tried on the facade and inside
\* create_message.
FacadeScripts == { s \in StatusScripts : Len(s) <= MaxFacadeScript }

----------------------------------------------------------------------------
(* Pure functions *)

Min(a, b) == IF a < b THEN a ELSE b

Digit(d) ==
    CASE d = 0 -> "0" [] d = 1 -> "1" [] d = 2 -> "2" [] d = 3 -> "3"
      [] d = 4 -> "4" [] d = 5 -> "5" [] d = 6 -> "6" [] d = 7 -> "7"
      [] d = 8 -> "8" [] d = 9 -> "9"

RECURSIVE IntToStr(_)
\* str(n) of a natural number: its decimal digits.
IntToStr(n) == IF n < 10 THEN Digit(n) ELSE IntToStr(n \div 10) \o Digit(n % 10)

\* str(function_response), the conversion submit_tool_outputs applies.
Str(v) ==
    CASE v.kind = "None" -> "None"
      [] v.kind = "int"  -> IntToStr(v.val)
      [] v.kind = "str"  -> v.value

\* The callable a caller registers under a name: "add" is (a, b) -> a + b.
RegisteredFunction(name, args) == IntVal(args.a + args.b)

\* Calling the registered callable raises: "add" without its operand b.
FunctionRaises(name, args) == name = "add" /\ "b" \notin DOMAIN args

\* The body of execute_function_call is `pass`: it returns None whatever the
\* function name, the arguments and the registry are.
execute_function_call(thr, name, args) == NoneVal

\* The entry submit_tool_outputs appends for one tool call.
ToolOutputEntry(thr, tc) ==
    [tool_call_id |-> tc.id,
     output |-> Str(execute_function_call(thr, tc.name, tc.arguments))]

\* A loop that walks the batch from its end.
NextToolCall_reversed(outputs, calls) == calls[Len(calls) - Len(outputs)]

\* `for tool_call in tool_calls`: the tool call the next iteration handles.
NextToolCall(outputs, calls) == calls[Len(outputs) + 1]

\* `for tool_call in tool_calls`: the loop has handled every tool call.
BatchComplete(outputs, calls) == Len(outputs) = Len(calls)

\* `thread.id`: a Thread object has the attribute, a thread_id string has not.
HasId(thr) == thr.kind = "Thread"

\* A loop that stops at any terminal status.
LoopContinues_untilTerminal(r) == r.status \notin Terminal

\* A loop that gives up after three reports of the status.
LoopContinues_pollLimit(r) == r.status # "completed" /\ Len(remoteLog) < 3

\* `while run.status != "completed"`
LoopContinues(r) == r.status # "completed"

\* A lookup that takes the newest message whatever its role.
FirstAssistant_newest(data) == IF data = <<>> THEN NoneVal ELSE Head(data)

RECURSIVE FirstAssistant(_)
\* next((msg for msg in messages.data if msg.role == "assistant"), None)
FirstAssistant(data) ==
    IF data = <<>> THEN NoneVal
    ELSE IF Head(data).role = "assistant" THEN Head(data)
    ELSE FirstAssistant(Tail(data))

\* The outcome of _try_get_latest_assistant_message on a listing: the message
\* it returns, or the exception it raises.
try_get_latest_assistant_message(data) ==
    IF data # <<>> /\ FirstAssistant(data) # NoneVal
    THEN [ok |-> TRUE, value |-> FirstAssistant(data), error |-> "none"]
    ELSE [ok |-> FALSE, value |-> NoneVal, error |-> "not_found"]

\* `while retries < max_retries`
RetryLoopContinues(r, n) == r < n

\* `if retries < max_retries` in the except clause: wait and go round again.
WaitsAndRetries(r, n) == r < n

----------------------------------------------------------------------------
(* The remote service *)

\* One remote call: what was called, whether it succeeded, the thread it was
\* about, the tool outputs or the message it carried and the run status it
\* answered.
RemoteCall(name, ok, outputs, answer) ==
    [call |-> name, ok |-> ok, thread |-> thread, outputs |-> outputs,
     answer |-> answer]

\* The scenario makes the next remote call fail.
RemoteFails == Len(remoteLog) + 1 = failAt

\* The number of times the service has reported the run's status.
StatusFetches ==
    Cardinality({ i \in 1..Len(remoteLog) :
                    /\ remoteLog[i].call \in {"runs.create", "runs.retrieve"}
                    /\ remoteLog[i].ok })

\* The status the service reports next: the scenario's, the last one for good.
NextStatus == statuses[Min(StatusFetches + 1, Len(statuses))]

\* The reply of the assistant, listed first (the listing is newest first).
Reply == MessageObj(0, "assistant")

\* The messages the i-th listing of the thread returns.
ListingAt(i) == IF i > replyAfter THEN <<Reply>> \o baseListing ELSE baseListing

----------------------------------------------------------------------------
(* The state between two operations *)

Idle ==
    /\ op = "idle" /\ pc = "idle"
    /\ result = NoneVal /\ raised = FALSE
    /\ remoteLog = <<>> /\ sleepLog = <<>>
    /\ thread = NoneVal /\ statuses = <<>> /\ failAt = 0
    /\ run = NoneVal /\ pending = <<>> /\ tool_calls = <<>> /\ tool_outputs = <<>>
    /\ function_name = "" /\ arguments = NoneVal
    /\ max_retries = 0 /\ retries = 0 /\ attempts = 0
    /\ baseListing = <<>> /\ replyAfter = 0 /\ lastListing = <<>>
    /\ opError = "none" /\ wrapperError = "none"
    /\ via = "impl" /\ given = Omitted /\ first = NoneVal
    /\ resolveError = "none" /\ remoteThreads = {}
    /\ content = "" /\ new_messages = <<>> /\ message = NoneVal
    /\ provider = "" /\ constructed = <<>>

Init ==
    /\ function_registry \in Registries
    /\ Idle
    /\ assistant_processor_implementations = DefaultImplementations
    /\ custom_processors = NoneVal /\ model = "" /\ suppliedLog = <<>>

\* The variables of the retry wrapper and the message lookup.
retryVars == <<max_retries, retries, attempts, baseListing, replyAfter,
               lastListing, opError, wrapperError>>

\* The variables of the run poller and the tool dispatcher.
runVars == <<statuses, run, pending, tool_calls, tool_outputs>>

\* The arguments of execute_function_call.
callVars == <<function_name, arguments>>

\* The variables of the route of a call.
routeVars == <<via, given, first>>

\* The variables an operation sets only where it says so.
\* The variables of src/test_lib.py.
testLibVars == <<assistant_processor_implementations, custom_processors, model,
                 suppliedLog>>

newVars == <<resolveError, remoteThreads, content, new_messages, message,
             provider, constructed, testLibVars>>

\* The position a call starts at: in the facade's method, or in the
\* implementation's method at its entry.
CallPc(v, entry) == IF v = "facade" THEN "facade" ELSE entry

\* The max_retries the implementation's method binds: its default 5 when the
\* argument is left out.
ImplMaxRetries(g) == IF g = Omitted THEN ImplDefaultMaxRetries ELSE g

\* A facade that drops the caller's max_retries.
FacadeMaxRetries_dropsArgument(g) == FacadeDefaultMaxRetries

\* The max_retries the facade's method binds and passes on: its default 3 when
\* the argument is left out.
FacadeMaxRetries(g) == IF g = Omitted THEN FacadeDefaultMaxRetries ELSE g

----------------------------------------------------------------------------
(* start_run *)

\* A caller calls start_run(thread_id, assistant_id); the scenario fixes what
\* the service will answer.
start_run_call(v, t, s, b, f) ==
    /\ op = "idle"
    /\ op' = "start_run" /\ pc' = CallPc(v, "create")
    /\ via' = v
    /\ thread' = ThreadId(t)
    /\ statuses' = s /\ pending' = b /\ failAt' = f
    /\ UNCHANGED <<function_registry, result, raised, remoteLog, sleepLog, run,
                   tool_calls, tool_outputs, callVars, retryVars, given, first, newVars>>

\* A start_run without its try / except: the exception reaches the caller.
start_run_except_propagates ==
    /\ raised' = TRUE /\ pc' = "done"
    /\ UNCHANGED result

\* start_run runs for its caller or inside create_message.
InStartRun == op \in {"start_run", "create_message"}

\* A create_message that returns what start_run returned to it.
create_message_result_ofRun(msg, started) ==
    IF started = NoneVal THEN NoneVal ELSE msg

\* `await self.start_run(thread_id, assistant_id)`, then `return message`:
\* what create_message returns once start_run has returned.
create_message_result(msg, started) == msg

\* start_run returns a value: to its caller, or to create_message, which then
\* returns its message.
StartRunReturns(value) ==
    /\ pc' = "done"
    /\ result' = IF op = "create_message"
                 THEN create_message_result(message, value)
                 ELSE value

\* `except Exception as e: ... return None`
start_run_except ==
    /\ StartRunReturns(NoneVal)
    /\ UNCHANGED raised

\* run = await self.client.beta.threads.runs.create(...)
start_run_create ==
    /\ InStartRun /\ pc = "create"
    /\ IF RemoteFails
       THEN /\ remoteLog' = Append(remoteLog,
                                  RemoteCall("runs.create", FALSE, <<>>, "none"))
            /\ start_run_except
            /\ UNCHANGED run
       ELSE /\ remoteLog' = Append(remoteLog,
                                  RemoteCall("runs.create", TRUE, <<>>, NextStatus))
            /\ run' = RunObj(NextStatus) /\ pc' = "loop"
            /\ UNCHANGED <<result, raised>>
    /\ UNCHANGED <<function_registry, op, sleepLog, thread, statuses, failAt,
                   pending, tool_calls, tool_outputs, callVars, retryVars, routeVars, newVars>>

\* The loop condition is false: `return run`.
start_run_return ==
    /\ InStartRun /\ pc = "loop"
    /\ ~LoopContinues(run)
    /\ StartRunReturns(run)
    /\ UNCHANGED <<function_registry, op, raised, remoteLog, sleepLog, thread,
                   failAt, runVars, callVars, retryVars, routeVars, newVars>>

\* One poll: run = await self.client.beta.threads.runs.retrieve(...), then the
\* test of run.status == "requires_action".
start_run_retrieve ==
    /\ InStartRun /\ pc = "loop"
    /\ LoopContinues(run)
    /\ Len(remoteLog) < MaxRemote
    /\ IF RemoteFails
       THEN /\ remoteLog' = Append(remoteLog,
                                  RemoteCall("runs.retrieve", FALSE, <<>>, "none"))
            /\ start_run_except
            /\ UNCHANGED <<run, tool_calls, tool_outputs>>
       ELSE /\ remoteLog' = Append(remoteLog,
                                  RemoteCall("runs.retrieve", TRUE, <<>>, NextStatus))
            /\ run' = RunObj(NextStatus)
            /\ IF NextStatus = "requires_action"
               THEN /\ tool_calls' = pending /\ tool_outputs' = <<>>
                    /\ pc' = "tool_loop"
               ELSE /\ pc' = "sleep"
                    /\ UNCHANGED <<tool_calls, tool_outputs>>
            /\ UNCHANGED <<result, raised>>
    /\ UNCHANGED <<function_registry, op, sleepLog, thread, statuses, failAt,
                   pending, callVars, retryVars, routeVars, newVars>>

\* await asyncio.sleep(1)
start_run_sleep ==
    /\ InStartRun /\ pc = "sleep"
    /\ sleepLog' = Append(sleepLog, poll_interval)
    /\ pc' = "loop"
    /\ UNCHANGED <<function_registry, op, result, raised, remoteLog, thread, failAt,
                   runVars, callVars, retryVars, routeVars, newVars>>

----------------------------------------------------------------------------
(* submit_tool_outputs, called by start_run or by a caller *)

\* A caller calls submit_tool_outputs(run, thread, tool_calls) with a Thread.
submit_tool_outputs_call(v, t, b, s, f) ==
    /\ op = "idle"
    /\ op' = "submit_tool_outputs" /\ pc' = CallPc(v, "tool_loop")
    /\ via' = v
    /\ thread' = ThreadObj(t)
    /\ run' = RunObj("requires_action")
    /\ tool_calls' = b /\ tool_outputs' = <<>>
    /\ statuses' = <<s>> /\ failAt' = f
    /\ UNCHANGED <<function_registry, result, raised, remoteLog, sleepLog, pending,
                   callVars, retryVars, given, first, newVars>>

\* One iteration of `for tool_call in tool_calls`.
submit_tool_outputs_iterate ==
    /\ (InStartRun \/ op = "submit_tool_outputs") /\ pc = "tool_loop"
    /\ ~BatchComplete(tool_outputs, tool_calls)
    /\ tool_outputs' =
           Append(tool_outputs,
                  ToolOutputEntry(thread, NextToolCall(tool_outputs, tool_calls)))
    /\ UNCHANGED <<function_registry, op, pc, result, raised, remoteLog, sleepLog,
                   thread, statuses, failAt, run, pending, tool_calls, callVars,
                   retryVars, routeVars, newVars>>

\* An exception leaves submit_tool_outputs: start_run catches it and returns
\* None, a direct caller receives it.
ExceptionInSubmit ==
    IF InStartRun
    THEN start_run_except
    ELSE raised' = TRUE /\ pc' = "done" /\ UNCHANGED result

\* run = await self.client.beta.threads.runs.submit_tool_outputs(
\*     thread_id=thread.id, run_id=run.id, tool_outputs=tool_outputs)
submit_tool_outputs_submit ==
    /\ (InStartRun \/ op = "submit_tool_outputs") /\ pc = "tool_loop"
    /\ BatchComplete(tool_outputs, tool_calls)
    /\ IF ~HasId(thread)
       THEN \* AttributeError: 'str' object has no attribute 'id'
            /\ ExceptionInSubmit
            /\ UNCHANGED <<remoteLog, run>>
       ELSE IF RemoteFails
       THEN /\ remoteLog' = Append(remoteLog,
                    RemoteCall("runs.submit_tool_outputs", FALSE, tool_outputs, "none"))
            /\ ExceptionInSubmit
            /\ UNCHANGED run
       ELSE /\ remoteLog' = Append(remoteLog,
                    RemoteCall("runs.submit_tool_outputs", TRUE, tool_outputs, NextStatus))
            /\ IF InStartRun
               THEN \* start_run drops the run submit_tool_outputs returns
                    /\ pc' = "sleep"
                    /\ UNCHANGED <<run, result, raised>>
               ELSE /\ run' = RunObj(NextStatus)
                    /\ result' = RunObj(NextStatus) /\ pc' = "done"
                    /\ UNCHANGED raised
    /\ UNCHANGED <<function_registry, op, sleepLog, thread, statuses, failAt,
                   pending, tool_calls, tool_outputs, callVars, retryVars, routeVars, newVars>>

----------------------------------------------------------------------------
(* execute_function_call, called by a caller *)

execute_function_call_call(v, t, n, a) ==
    /\ op = "idle"
    /\ op' = "execute_function_call" /\ pc' = CallPc(v, "body")
    /\ via' = v
    /\ thread' = ThreadObj(t)
    /\ function_name' = n /\ arguments' = a
    /\ UNCHANGED <<function_registry, result, raised, remoteLog, sleepLog, failAt,
                   runVars, retryVars, given, first, newVars>>

execute_function_call_body ==
    /\ op = "execute_function_call" /\ pc = "body"
    /\ result' = execute_function_call(thread, function_name, arguments)
    /\ pc' = "done"
    /\ UNCHANGED <<function_registry, op, raised, remoteLog, sleepLog, thread,
                   failAt, runVars, callVars, retryVars, routeVars, newVars>>

----------------------------------------------------------------------------
(* get_assistant_response: retry_manager around the message lookup *)

\* A caller calls get_assistant_response(thread_id, max_retries).
get_assistant_response_call(v, t, g, base, k, f) ==
    /\ op = "idle"
    /\ op' = "get_assistant_response" /\ pc' = CallPc(v, "enter")
    /\ via' = v /\ given' = g
    /\ thread' = ThreadId(t)
    /\ max_retries' = IF v = "impl" THEN ImplMaxRetries(g) ELSE 0
    /\ baseListing' = base /\ replyAfter' = k /\ failAt' = f
    /\ UNCHANGED <<function_registry, result, raised, remoteLog, sleepLog, runVars,
                   callVars, retries, attempts, lastListing, opError, wrapperError, first, newVars>>

\* `async with retry_manager(max_retries=max_retries)`: the generator runs to
\* its first yield.  When the loop condition is false at once it ends without
\* a yield, the context manager raises RuntimeError and get_assistant_response
\* returns None.
retry_manager_enter ==
    /\ op = "get_assistant_response" /\ pc = "enter"
    /\ retries' = 0
    /\ IF RetryLoopContinues(0, max_retries)
       THEN pc' = "body" /\ UNCHANGED <<result, wrapperError>>
       ELSE /\ wrapperError' = "generator didn't yield"
            /\ result' = NoneVal /\ pc' = "done"
    /\ UNCHANGED <<function_registry, op, raised, remoteLog, sleepLog, thread,
                   failAt, runVars, callVars, max_retries, attempts, baseListing,
                   replyAfter, lastListing, opError, routeVars, newVars>>

\* The body of the with statement:
\* `return await self._try_get_latest_assistant_message(thread_id)`.
\* On success the generator resumes after its yield and returns.
get_assistant_response_body ==
    /\ op = "get_assistant_response" /\ pc = "body"
    /\ attempts' = attempts + 1
    /\ IF RemoteFails
       THEN /\ remoteLog' = Append(remoteLog, RemoteCall("messages.list", FALSE, <<>>, "none"))
            /\ opError' = "remote" /\ pc' = "except"
            /\ UNCHANGED <<result, lastListing>>
       ELSE /\ remoteLog' = Append(remoteLog, RemoteCall("messages.list", TRUE, <<>>, "none"))
            /\ lastListing' = ListingAt(attempts + 1)
            /\ LET r == try_get_latest_assistant_message(ListingAt(attempts + 1))
               IN  IF r.ok
                   THEN result' = r.value /\ opError' = "none" /\ pc' = "done"
                   ELSE opError' = r.error /\ pc' = "except" /\ UNCHANGED result
    /\ UNCHANGED <<function_registry, op, raised, sleepLog, thread, failAt, runVars,
                   callVars, max_retries, retries, baseListing, replyAfter,
                   wrapperError, routeVars, newVars>>

\* The exception of the body is thrown into the generator at its yield:
\* `except Exception as e: retries += 1`, then either the wait or the raise of
\* "Operation failed after N retries", which get_assistant_response catches.
retry_manager_except ==
    /\ op = "get_assistant_response" /\ pc = "except"
    /\ retries' = retries + 1
    /\ IF WaitsAndRetries(retries + 1, max_retries)
       THEN pc' = "retry_sleep" /\ UNCHANGED <<result, wrapperError>>
       ELSE /\ wrapperError' = "Operation failed after max_retries retries"
            /\ result' = NoneVal /\ pc' = "done"
    /\ UNCHANGED <<function_registry, op, raised, remoteLog, sleepLog, thread,
                   failAt, runVars, callVars, max_retries, attempts, baseListing,
                   replyAfter, lastListing, opError, routeVars, newVars>>

\* `await asyncio.sleep(delay)`, then the loop goes round.  A second yield of
\* the generator cannot run the body again: the context manager is inside its
\* exit and raises RuntimeError, which get_assistant_response catches.  A
\* generator that ends instead makes the exit swallow the exception, and
\* get_assistant_response falls off its end.  Both return None.
retry_manager_sleep ==
    /\ op = "get_assistant_response" /\ pc = "retry_sleep"
    /\ sleepLog' = Append(sleepLog, retry_delay)
    /\ wrapperError' = IF RetryLoopContinues(retries, max_retries)
                       THEN "generator didn't stop after athrow()"
                       ELSE "none"
    /\ result' = NoneVal /\ pc' = "done"
    /\ UNCHANGED <<function_registry, op, raised, remoteLog, thread, failAt, runVars,
                   callVars, max_retries, retries, attempts, baseListing,
                   replyAfter, lastListing, opError, routeVars, newVars>>

----------------------------------------------------------------------------
(* get_or_create_thread *)

\* A caller calls get_or_create_thread(thread_id).
get_or_create_thread_call(v, tid, rt, f) ==
    /\ op = "idle"
    /\ op' = "get_or_create_thread" /\ pc' = CallPc(v, "thread")
    /\ via' = v
    /\ thread' = tid
    /\ remoteThreads' = rt /\ failAt' = f
    /\ UNCHANGED <<function_registry, result, raised, remoteLog, sleepLog, runVars,
                   callVars, retryVars, given, first, resolveError, content,
                   new_messages, message, provider, constructed, testLibVars>>

\* A get_or_create_thread that creates the thread it cannot find.
ThreadRequest_createsUnknown(tid) ==
    IF tid = NoneVal \/ tid.value \notin remoteThreads
    THEN "threads.create" ELSE "threads.retrieve"

\* `if thread_id is None`: create a thread, otherwise retrieve the thread.
ThreadRequest(tid) ==
    IF tid = NoneVal THEN "threads.create" ELSE "threads.retrieve"

\* The service answers the request: a creation fails when the scenario says
\* so, a retrieval also when the service holds no thread of that id.
ThreadRequestFails(req, tid) ==
    \/ RemoteFails
    \/ req = "threads.retrieve" /\ tid.value \notin remoteThreads

\* The body of get_or_create_thread; `except Exception` returns None.
get_or_create_thread_body ==
    /\ op = "get_or_create_thread" /\ pc = "thread"
    /\ LET req == ThreadRequest(thread)
       IN  IF ThreadRequestFails(req, thread)
           THEN /\ remoteLog' = Append(remoteLog, RemoteCall(req, FALSE, <<>>, "none"))
                /\ result' = NoneVal
           ELSE /\ remoteLog' = Append(remoteLog, RemoteCall(req, TRUE, <<>>, "none"))
                /\ result' = IF req = "threads.create"
                             THEN ThreadObj("thread_new")
                             ELSE ThreadObj(thread.value)
    /\ pc' = "done"
    /\ UNCHANGED <<function_registry, op, raised, sleepLog, thread, failAt, runVars,
                   callVars, retryVars, routeVars, newVars>>

----------------------------------------------------------------------------
(* get_thread_messages *)

\* A caller calls get_thread_messages(thread_id) on a thread whose listing
\* the scenario fixes.
get_thread_messages_call(v, t, base, f) ==
    /\ op = "idle"
    /\ op' = "get_thread_messages" /\ pc' = CallPc(v, "list")
    /\ via' = v
    /\ thread' = ThreadId(t)
    /\ baseListing' = base /\ replyAfter' = Never /\ failAt' = f
    /\ UNCHANGED <<function_registry, result, raised, remoteLog, sleepLog, runVars,
                   callVars, max_retries, retries, attempts, lastListing, opError,
                   wrapperError, given, first, newVars>>

\* `if messages.data: return list(messages.data)`, otherwise `return None`.
listed_messages(data) ==
    IF data # <<>> THEN [kind |-> "list", items |-> data] ELSE NoneVal

\* The body of get_thread_messages; `except Exception` returns None.
get_thread_messages_body ==
    /\ op = "get_thread_messages" /\ pc = "list"
    /\ IF RemoteFails
       THEN /\ remoteLog' = Append(remoteLog, RemoteCall("messages.list", FALSE, <<>>, "none"))
            /\ result' = NoneVal
            /\ UNCHANGED lastListing
       ELSE /\ remoteLog' = Append(remoteLog, RemoteCall("messages.list", TRUE, <<>>, "none"))
            /\ lastListing' = ListingAt(1)
            /\ result' = listed_messages(ListingAt(1))
    /\ pc' = "done"
    /\ UNCHANGED <<function_registry, op, raised, sleepLog, thread, failAt, runVars,
                   callVars, max_retries, retries, attempts, baseListing,
                   replyAfter, opError, wrapperError, routeVars, newVars>>

----------------------------------------------------------------------------
(* setup_new_thread *)

\* A caller calls setup_new_thread(thread_id, messages).
setup_new_thread_call(v, t, ms, f) ==
    /\ op = "idle"
    /\ op' = "setup_new_thread" /\ pc' = CallPc(v, "setup_loop")
    /\ via' = v
    /\ thread' = ThreadId(t)
    /\ new_messages' = ms /\ failAt' = f
    /\ UNCHANGED <<function_registry, result, raised, remoteLog, sleepLog, runVars,
                   callVars, retryVars, given, first, resolveError, remoteThreads,
                   content, message, provider, constructed, testLibVars>>

\* `message.content[0].text.value if message.content else ""`
ContentText(m) == IF m.content # <<>> THEN m.content[1] ELSE ""

\* One iteration of `for message in messages`: the message is created in the
\* thread; `except Exception` ends the operation.
setup_new_thread_create ==
    /\ op = "setup_new_thread" /\ pc = "setup_loop"
    /\ Len(remoteLog) < Len(new_messages)
    /\ LET m == new_messages[Len(remoteLog) + 1]
           sent == <<[role |-> m.role, content |-> ContentText(m)]>>
       IN  IF RemoteFails
           THEN /\ remoteLog' = Append(remoteLog,
                                      RemoteCall("messages.create", FALSE, sent, "none"))
                /\ pc' = "done"
           ELSE /\ remoteLog' = Append(remoteLog,
                                      RemoteCall("messages.create", TRUE, sent, "none"))
                /\ pc' = "setup_loop"
    /\ UNCHANGED <<function_registry, op, result, raised, sleepLog, thread, failAt,
                   runVars, callVars, retryVars, routeVars, newVars>>

\* The loop is over: setup_new_thread returns None.
setup_new_thread_return ==
    /\ op = "setup_new_thread" /\ pc = "setup_loop"
    /\ Len(remoteLog) = Len(new_messages)
    /\ result' = NoneVal /\ pc' = "done"
    /\ UNCHANGED <<function_registry, op, raised, remoteLog, sleepLog, thread,
                   failAt, runVars, callVars, retryVars, routeVars, newVars>>

----------------------------------------------------------------------------
(* create_message *)

\* A caller calls create_message(thread_id, assistant_id, content); the
\* scenario fixes what the service will answer.
create_message_call(v, t, c, s, b, f) ==
    /\ op = "idle"
    /\ op' = "create_message" /\ pc' = CallPc(v, "message")
    /\ via' = v
    /\ thread' = ThreadId(t)
    /\ content' = c
    /\ statuses' = s /\ pending' = b /\ failAt' = f
    /\ UNCHANGED <<function_registry, result, raised, remoteLog, sleepLog, run,
                   tool_calls, tool_outputs, callVars, retryVars, given, first,
                   resolveError, remoteThreads, new_messages, message, provider,
                   constructed, testLibVars>>

\* message = await self.client.beta.threads.messages.create(
\*     thread_id=thread_id, role="user", content=content)
\* `except Exception` returns None; otherwise start_run is called.
create_message_create ==
    /\ op = "create_message" /\ pc = "message"
    /\ LET sent == <<[role |-> "user", content |-> content]>>
       IN  IF RemoteFails
           THEN /\ remoteLog' = Append(remoteLog,
                                      RemoteCall("messages.create", FALSE, sent, "none"))
                /\ result' = NoneVal /\ pc' = "done"
                /\ UNCHANGED message
           ELSE /\ remoteLog' = Append(remoteLog,
                                      RemoteCall("messages.create", TRUE, sent, "none"))
                /\ message' = CreatedMessage(content)
                /\ pc' = "create"
                /\ UNCHANGED result
    /\ UNCHANGED <<function_registry, op, raised, sleepLog, thread, failAt, runVars,
                   callVars, retryVars, routeVars, resolveError, remoteThreads,
                   content, new_messages, provider, constructed, testLibVars>>

----------------------------------------------------------------------------
(* The facade AssistantProcessor of processor_2.py *)

\* The position at which the implementation's method starts.
EntryPc(o) ==
    CASE o = "start_run" -> "create"
      [] o = "submit_tool_outputs" -> "tool_loop"
      [] o = "execute_function_call" -> "body"
      [] o = "get_assistant_response" -> "enter"
      [] o = "get_or_create_thread" -> "thread"
      [] o = "get_thread_messages" -> "list"
      [] o = "setup_new_thread" -> "setup_loop"
      [] o = "create_message" -> "message"

\* The facade's method: `return await self.processor.<operation>(...)` with
\* the arguments it received, max_retries bound by the facade's own default.
facade_forward ==
    /\ pc = "facade"
    /\ pc' = EntryPc(op)
    /\ max_retries' = IF op = "get_assistant_response"
                      THEN FacadeMaxRetries(given) ELSE max_retries
    /\ UNCHANGED <<function_registry, op, result, raised, remoteLog, sleepLog,
                   thread, failAt, runVars, callVars, retries, attempts,
                   baseListing, replyAfter, lastListing, opError, wrapperError,
                   routeVars, newVars>>

\* What a caller sees of a finished call.
Outcome ==
    [kind |-> "Outcome", result |-> result, raised |-> raised,
     remoteLog |-> remoteLog]

\* After a call on the facade has returned, the caller makes the same call,
\* with the argument list as written, on the implementation, against a
\* service that answers as before.
repeat_on_implementation ==
    /\ pc = "done" /\ via = "facade" /\ first = NoneVal
    /\ first' = Outcome
    /\ via' = "impl" /\ pc' = EntryPc(op)
    /\ max_retries' = IF op = "get_assistant_response"
                      THEN ImplMaxRetries(given) ELSE max_retries
    /\ result' = NoneVal /\ raised' = FALSE
    /\ remoteLog' = <<>> /\ sleepLog' = <<>>
    /\ run' = IF op = "submit_tool_outputs" THEN RunObj("requires_action") ELSE NoneVal
    /\ tool_calls' = IF op = "submit_tool_outputs" THEN tool_calls ELSE <<>>
    /\ tool_outputs' = <<>>
    /\ retries' = 0 /\ attempts' = 0 /\ lastListing' = <<>>
    /\ opError' = "none" /\ wrapperError' = "none"
    /\ message' = NoneVal
    /\ UNCHANGED <<function_registry, op, thread, statuses, failAt, pending,
                   callVars, baseListing, replyAfter, given, resolveError,
                   remoteThreads, content, new_messages, provider, constructed, testLibVars>>

\* A caller constructs AssistantProcessor(config).
assistant_processor_call(p) ==
    /\ op = "idle"
    /\ op' = "AssistantProcessor" /\ pc' = "resolve"
    /\ provider' = p
    /\ UNCHANGED <<function_registry, result, raised, remoteLog, sleepLog, thread,
                   failAt, runVars, callVars, retryVars, routeVars, resolveError,
                   remoteThreads, content, new_messages, message, constructed, testLibVars>>

\* A resolution that falls back to the openai implementation.
get_assistant_processor_fallsBack(p) ==
    IF p \in DOMAIN processor_implementations
    THEN [ok |-> TRUE, class |-> processor_implementations[p], error |-> "none"]
    ELSE [ok |-> TRUE, class |-> processor_implementations["openai"],
          error |-> "none"]

\* get_assistant_processor(config): the class registered under
\* config.provider, or KeyError for a provider that is not registered.
get_assistant_processor(p) ==
    IF p \in DOMAIN processor_implementations
    THEN [ok |-> TRUE, class |-> processor_implementations[p], error |-> "none"]
    ELSE [ok |-> FALSE, class |-> "none", error |-> "KeyError"]

\* `self.processor = get_assistant_processor(config)`: the class is
\* instantiated, or the KeyError leaves the constructor.
assistant_processor_init ==
    /\ op = "AssistantProcessor" /\ pc = "resolve"
    /\ LET r == get_assistant_processor(provider)
       IN  IF r.ok
           THEN /\ constructed' = Append(constructed, r.class)
                /\ result' = [kind |-> "AssistantProcessor", processor |-> r.class]
                /\ UNCHANGED <<raised, resolveError>>
           ELSE /\ raised' = TRUE /\ resolveError' = r.error
                /\ UNCHANGED <<result, constructed>>
    /\ pc' = "done"
    /\ UNCHANGED <<function_registry, op, remoteLog, sleepLog, thread, failAt,
                   runVars, callVars, retryVars, routeVars, remoteThreads, content,
                   new_messages, message, provider, testLibVars>>

----------------------------------------------------------------------------
(* The operation has returned; the caller goes on. *)

Return ==
    /\ pc = "done"
    /\ op' = "idle" /\ pc' = "idle"
    /\ result' = NoneVal /\ raised' = FALSE
    /\ remoteLog' = <<>> /\ sleepLog' = <<>>
    /\ thread' = NoneVal /\ statuses' = <<>> /\ failAt' = 0
    /\ run' = NoneVal /\ pending' = <<>> /\ tool_calls' = <<>> /\ tool_outputs' = <<>>
    /\ function_name' = "" /\ arguments' = NoneVal
    /\ max_retries' = 0 /\ retries' = 0 /\ attempts' = 0
    /\ baseListing' = <<>> /\ replyAfter' = 0 /\ lastListing' = <<>>
    /\ opError' = "none" /\ wrapperError' = "none"
    /\ via' = "impl" /\ given' = Omitted /\ first' = NoneVal
    /\ resolveError' = "none" /\ remoteThreads' = {}
    /\ content' = "" /\ new_messages' = <<>> /\ message' = NoneVal
    /\ provider' = "" /\ constructed' = <<>>
    /\ UNCHANGED <<function_registry, testLibVars>>

\* A caller starts an operation only when none is in progress.
CanCall == op = "idle"

Next ==
    \/ CanCall /\ \E t \in ThreadNames, s \in StatusScripts, f \in 0..MaxRemote :
                   \E b \in PendingFor(s) : start_run_call("impl", t, s, b, f)
    \/ CanCall /\ \E t \in ThreadNames, s \in FacadeScripts, f \in 0..MaxFacadeScript :
                   \E b \in PendingFor(s) : start_run_call("facade", t, s, b, f)
    \/ start_run_create
    \/ start_run_return
    \/ start_run_retrieve
    \/ start_run_sleep
    \/ CanCall /\ \E v \in Routes, t \in ThreadNames, b \in DirectBatches,
                     s \in RunStatus, f \in 0..1 :
          submit_tool_outputs_call(v, t, b, s, f)
    \/ submit_tool_outputs_iterate
    \/ submit_tool_outputs_submit
    \/ CanCall /\ \E v \in Routes, t \in ThreadNames, n \in FunctionNames,
                     a \in ArgumentSets :
          execute_function_call_call(v, t, n, a)
    \/ execute_function_call_body
    \/ CanCall /\ \E v \in Routes, t \in ThreadNames, g \in GivenRetries,
                     base \in Listings, k \in (0..MaxReplyAfter) \cup {Never},
                     f \in 0..MaxN :
          get_assistant_response_call(v, t, g, base, k, f)
    \/ retry_manager_enter
    \/ get_assistant_response_body
    \/ retry_manager_except
    \/ retry_manager_sleep
    \/ CanCall /\ \E v \in Routes, tid \in ThreadIdArguments,
                     rt \in RemoteThreadSets, f \in 0..1 :
          get_or_create_thread_call(v, tid, rt, f)
    \/ get_or_create_thread_body
    \/ CanCall /\ \E v \in Routes, t \in ThreadNames, base \in Listings, f \in 0..1 :
          get_thread_messages_call(v, t, base, f)
    \/ get_thread_messages_body
    \/ CanCall /\ \E v \in Routes, t \in ThreadNames, ms \in MessageLists,
                     f \in 0..MaxMsgs :
          setup_new_thread_call(v, t, ms, f)
    \/ setup_new_thread_create
    \/ setup_new_thread_return
    \/ CanCall /\ \E v \in Routes, t \in ThreadNames, c \in Contents,
                     s \in FacadeScripts, f \in 0..(MaxFacadeScript + 1) :
                   \E b \in PendingFor(s) : create_message_call(v, t, c, s, b, f)
    \/ create_message_create
    \/ CanCall /\ \E p \in ProviderNames : assistant_processor_call(p)
    \/ assistant_processor_init
    \/ facade_forward
    \/ repeat_on_implementation
    \/ Return

Spec == Init /\ [][Next]_vars

----------------------------------------------------------------------------
(* src/test_lib.py: AssistantProcessor and the dict of its implementations *)

\* `custom_processors or {}`
MappingOrEmpty(c) == IF c = NoneVal THEN <<>> ELSE c.entries

\* An update that keeps the entry a name already has.
DictUpdate_keepsEarlier(dict, m) ==
    [n \in (DOMAIN dict) \cup (DOMAIN m) |->
        IF n \in DOMAIN dict THEN dict[n] ELSE m[n]]

\* dict.update(m): the entries of m are added, replacing those of equal name.
DictUpdate(dict, m) ==
    [n \in (DOMAIN dict) \cup (DOMAIN m) |->
        IF n \in DOMAIN m THEN m[n] ELSE dict[n]]

\* The variables test_lib.py does not touch.
assistantVars == <<function_registry, remoteLog, sleepLog, thread, failAt,
                   runVars, callVars, retryVars, routeVars, remoteThreads,
                   content, new_messages, message>>

\* A caller constructs test_lib.AssistantProcessor(provider, model,
\* custom_processors).
test_lib_init_call(p, m, c) ==
    /\ op = "idle"
    /\ Len(suppliedLog) < MaxConstructions
    /\ op' = "test_lib.AssistantProcessor" /\ pc' = "update"
    /\ provider' = p /\ model' = m /\ custom_processors' = c
    /\ suppliedLog' = Append(suppliedLog, c)
    /\ UNCHANGED <<assistantVars, result, raised, resolveError, constructed,
                   assistant_processor_implementations>>

\* self.assistant_processor_implementations.update(custom_processors or {}):
\* the attribute is found on the class and is the dict of the module.
test_lib_init_update ==
    /\ op = "test_lib.AssistantProcessor" /\ pc = "update"
    /\ assistant_processor_implementations' =
           DictUpdate(assistant_processor_implementations,
                      MappingOrEmpty(custom_processors))
    /\ pc' = "resolve"
    /\ UNCHANGED <<assistantVars, op, result, raised, resolveError, constructed,
                   provider, custom_processors, model, suppliedLog>>

\* self.processor = self.assistant_processor_implementations[provider]()
\* and self.model = model; a missing name raises KeyError.
test_lib_init_resolve ==
    /\ op = "test_lib.AssistantProcessor" /\ pc = "resolve"
    /\ IF provider \in DOMAIN assistant_processor_implementations
       THEN /\ constructed' =
                   Append(constructed, assistant_processor_implementations[provider])
            /\ result' = [kind |-> "AssistantProcessor",
                          processor |-> assistant_processor_implementations[provider],
                          model |-> model]
            /\ UNCHANGED <<raised, resolveError>>
       ELSE /\ raised' = TRUE /\ resolveError' = "KeyError"
            /\ UNCHANGED <<result, constructed>>
    /\ pc' = "done"
    /\ UNCHANGED <<assistantVars, op, provider, testLibVars>>

\* The construction has ended; the dict of the module stays as it is.
test_lib_init_return ==
    /\ op = "test_lib.AssistantProcessor" /\ pc = "done"
    /\ op' = "idle" /\ pc' = "idle"
    /\ result' = NoneVal /\ raised' = FALSE /\ resolveError' = "none"
    /\ provider' = "" /\ constructed' = <<>>
    /\ custom_processors' = NoneVal /\ model' = ""
    /\ UNCHANGED <<assistantVars, assistant_processor_implementations, suppliedLog>>

TestLibNext ==
    \/ CanCall /\ \E p \in TestProviderNames, m \in Models,
                     c \in CustomProcessorArguments : test_lib_init_call(p, m, c)
    \/ test_lib_init_update
    \/ test_lib_init_resolve
    \/ test_lib_init_return

TestLibSpec == Init /\ [][TestLibNext]_vars

----------------------------------------------------------------------------
(* Properties *)

\* The scenario makes the i-th invocation of the message lookup fail: the
\* listing fails, or it holds no message of the assistant.
OpFailsAt(i) ==
    \/ i = failAt
    \/ ~try_get_latest_assistant_message(ListingAt(i)).ok

\* get_assistant_response has returned.
ResponseDone == op = "get_assistant_response" /\ pc = "done"

\* start_run has returned.
StartRunDone == op = "start_run" /\ pc = "done"

\* C1: with max_retries = N and a lookup that fails on every call, the retry
\* wrapper invokes the lookup at most N times and ends in failure only after
\* exactly N invocations.
C1_FailureAfterExactlyNAttempts ==
    op = "get_assistant_response" =>
        /\ attempts <= max_retries
        /\ (pc = "done" /\ \A i \in 1..max_retries : OpFailsAt(i))
              => (result = NoneVal /\ attempts = max_retries)

\* C2: when the lookup fails on its first k calls and succeeds on call k+1,
\* with k+1 <= max_retries, get_assistant_response returns the message of call
\* k+1 and the lookup was invoked exactly k+1 times.
C2_SuccessAfterKFailures ==
    ResponseDone =>
        \A k \in 0..(max_retries - 1) :
            ((\A i \in 1..k : OpFailsAt(i)) /\ ~OpFailsAt(k + 1))
              => /\ result = try_get_latest_assistant_message(ListingAt(k + 1)).value
                 /\ attempts = k + 1

\* The i-th remote call is a poll that observed requires_action.
ObservedRequiresAction(i) ==
    /\ remoteLog[i].call = "runs.retrieve"
    /\ remoteLog[i].ok
    /\ remoteLog[i].answer = "requires_action"

\* C3: when the statuses end in completed and no remote call fails, every poll
\* that observed requires_action is followed at once by one successful
\* submission for the same thread with one output per pending tool call, and
\* start_run returns the completed run.
C3_SubmitsOncePerRequiresAction ==
    (StartRunDone /\ failAt = 0 /\ statuses[Len(statuses)] = "completed")
      => /\ result = RunObj("completed")
         /\ \A i \in 1..Len(remoteLog) :
               ObservedRequiresAction(i)
                 => /\ i < Len(remoteLog)
                    /\ remoteLog[i + 1].call = "runs.submit_tool_outputs"
                    /\ remoteLog[i + 1].ok
                    /\ remoteLog[i + 1].thread = thread
                    /\ Len(remoteLog[i + 1].outputs) = Len(pending)

\* The outputs are one per tool call of the batch so far, in the batch's order.
OutputsFollow(outputs, calls) ==
    /\ Len(outputs) <= Len(calls)
    /\ \A i \in 1..Len(outputs) : outputs[i].tool_call_id = calls[i].id

\* C4: a batch submitted to the service holds exactly one output per tool call
\* of the batch, the i-th output carrying the id of the i-th tool call, also
\* for function names outside the registry; while the batch is being built
\* its outputs follow the tool calls in order.
C4_OneOutputPerToolCallInOrder ==
    op \in {"start_run", "submit_tool_outputs"} =>
        /\ OutputsFollow(tool_outputs, tool_calls)
        /\ \A j \in 1..Len(remoteLog) :
              remoteLog[j].call = "runs.submit_tool_outputs"
                => /\ Len(remoteLog[j].outputs) = Len(tool_calls)
                   /\ OutputsFollow(remoteLog[j].outputs, tool_calls)

\* A batch of two tool calls, one of them for an unregistered function, has
\* been submitted.
C4_Witness ==
    /\ op = "submit_tool_outputs" /\ pc = "done" /\ ~raised
    /\ Len(remoteLog) = 1 /\ remoteLog[1].ok
    /\ Len(remoteLog[1].outputs) = 2
    /\ \E i \in 1..Len(tool_calls) : tool_calls[i].name \notin function_registry

\* execute_function_call has returned.
DispatchDone == op = "execute_function_call" /\ pc = "done"

\* C5: for a function name in the registry the tool output is the text of the
\* registered function's result: "add" with a = 2, b = 3 gives "5".
C5_RegisteredFunctionResult ==
    (DispatchDone /\ function_name \in function_registry)
      => Str(result) = Str(RegisteredFunction(function_name, arguments))

\* C6: for a function name outside the registry execute_function_call does
\* not raise and returns an error text.
C6_UnknownFunctionErrorText ==
    (DispatchDone /\ function_name \notin function_registry)
      => (~raised /\ result.kind = "str")

\* The successful remote calls that answered a run.
RunAnswers ==
    SelectSeq(remoteLog, LAMBDA e : e.ok /\ e.call \in
                {"runs.create", "runs.retrieve", "runs.submit_tool_outputs"})

\* The run the service answered last.
LastRunObtained == RunObj(RunAnswers[Len(RunAnswers)].answer)

\* C7: a run returned by start_run has the status completed and is the run
\* the service answered last.
C7_ReturnedRunIsCompleted ==
    (StartRunDone /\ result # NoneVal)
      => (result.status = "completed" /\ result = LastRunObtained)

\* start_run has returned a run after at least two polls.
C7_Witness ==
    /\ StartRunDone /\ result # NoneVal
    /\ Len(remoteLog) >= 3

\* C8: a remote call of start_run that fails is its last remote call, and
\* start_run returns None without an exception reaching the caller.
C8_RemoteFailureAborts ==
    op = "start_run" =>
        \A i \in 1..Len(remoteLog) :
            ~remoteLog[i].ok
              => /\ i = Len(remoteLog)
                 /\ pc = "done" /\ result = NoneVal /\ ~raised

\* start_run has returned after its third remote call, a poll, failed.
C8_Witness ==
    /\ StartRunDone
    /\ Len(remoteLog) = 3
    /\ remoteLog[3].call = "runs.retrieve" /\ ~remoteLog[3].ok

\* The status of the run start_run holds, "none" before the run is created.
StatusOf(r) == IF r.kind = "Run" THEN r.status ELSE "none"

\* C9: once start_run holds a run that is failed or expired, its next step
\* ends it with the failure signal.
C9_FailedRunEndsStartRun ==
    [][(op = "start_run" /\ pc # "done" /\ StatusOf(run) \in {"failed", "expired"})
         => (pc' = "done" /\ result' = NoneVal)]_vars

\* The message is the first of the listing whose role is assistant.
IsFirstAssistantOf(m, data) ==
    \E i \in 1..Len(data) :
        /\ data[i] = m
        /\ data[i].role = "assistant"
        /\ \A j \in 1..(i - 1) : data[j].role # "assistant"

\* The message lookup has run and its listing call succeeded.
LookupAnswered ==
    op = "get_assistant_response" /\ attempts >= 1 /\ opError # "remote"

ThreadDone == op = "get_or_create_thread" /\ pc = "done"

\* The i-th remote call asked the service to create a thread.
CreatesThread(i) == remoteLog[i].call = "threads.create"

\* C11: get_or_create_thread called with an id of no remote thread returns
\* None, lets no exception escape and creates no thread; it asks the service
\* for a new thread only when its argument is None.
C11_UnknownThreadIdFails ==
    op = "get_or_create_thread" =>
        /\ \A i \in 1..Len(remoteLog) : CreatesThread(i) => thread = NoneVal
        /\ (pc = "done" /\ thread # NoneVal /\ thread.value \notin remoteThreads)
              => (result = NoneVal /\ ~raised)

\* get_or_create_thread has returned for an id the service does not hold,
\* while it holds another thread.
C11_Witness ==
    /\ ThreadDone
    /\ thread = ThreadId("thread_x") /\ remoteThreads = {"thread_a"}
    /\ Len(remoteLog) = 1 /\ ~remoteLog[1].ok

\* The public operations of the processor.
PublicOperations ==
    {"start_run", "create_message", "get_assistant_response",
     "get_or_create_thread", "get_thread_messages", "setup_new_thread",
     "submit_tool_outputs"}

\* C12: every public operation returns a result or the failure signal None
\* and lets no exception escape to its caller, whatever remote call fails.
C12_NoExceptionEscapes ==
    (op \in PublicOperations /\ pc = "done")
      => /\ ~raised
         /\ result.kind \in {"None", "Run", "Message", "Thread", "list"}

\* create_message has returned.
CreateMessageDone == op = "create_message" /\ pc = "done"

\* The i-th remote call belongs to start_run.
IsRunCall(i) ==
    remoteLog[i].call \in {"runs.create", "runs.retrieve", "runs.submit_tool_outputs"}

ConstructionDone == op = "AssistantProcessor" /\ pc = "done"

\* C13: resolving a provider name outside the registry raises KeyError and
\* instantiates nothing; resolving a registered name instantiates exactly the
\* class registered under it.
C13_ResolvesRegisteredProviderOnly ==
    ConstructionDone =>
        IF provider \in DOMAIN processor_implementations
        THEN /\ ~raised /\ resolveError = "none"
             /\ constructed = <<processor_implementations[provider]>>
             /\ result.processor = processor_implementations[provider]
        ELSE /\ raised /\ resolveError = "KeyError"
             /\ constructed = <<>>

\* The construction for an unregistered provider has ended.
C13_Witness ==
    /\ ConstructionDone
    /\ provider = "other" /\ raised

\* A call made on the facade and then on the implementation has ended twice.
PairDone == pc = "done" /\ first # NoneVal

ObservedStillProcessing(i) ==
    /\ remoteLog[i].call = "runs.retrieve"
    /\ remoteLog[i].ok
    /\ remoteLog[i].answer \notin {"completed", "requires_action"}

\* C16: between iterations of the polling loop, and when start_run has ended,
\* start_run has suspended once, for 1 time unit, per poll that observed a
\* still-processing status, and not otherwise: not after a poll that observed
\* completed, not after one that observed requires_action.
C16_SuspendsOncePerStillProcessingPoll ==
    (op = "start_run" /\ pc \in {"loop", "done"}) =>
        /\ \A i \in 1..Len(sleepLog) : sleepLog[i] = poll_interval
        /\ Len(sleepLog) =
               Cardinality({ i \in 1..Len(remoteLog) : ObservedStillProcessing(i) })

\* The scenario of C17: every remote call succeeds, and the service reports
\* queued or in_progress until it reports completed.
ProcessingThenCompleted ==
    /\ failAt = 0
    /\ statuses[Len(statuses)] = "completed"
    /\ \A i \in 1..(Len(statuses) - 1) : statuses[i] \in {"queued", "in_progress"}

\* The polls made so far.
Polls == { i \in 1..Len(remoteLog) : remoteLog[i].call = "runs.retrieve" }

\* C17: when every remote call succeeds and the service reports n
\* still-processing statuses and then completed, start_run never ends before
\* it has seen completed: it can always take its next step, it makes one poll
\* per status after the first, and it returns the completed run.
C17_PollsUntilCompleted ==
    (op = "start_run" /\ ProcessingThenCompleted) =>
        /\ pc \notin {"done", "facade"} =>
               ENABLED (start_run_create \/ start_run_retrieve
                           \/ start_run_sleep \/ start_run_return)
        /\ pc = "done" =>
               /\ result = RunObj("completed")
               /\ Cardinality(Polls) = Len(statuses) - 1

\* start_run has returned the completed run after MaxScript - 1 polls.
C17_Witness ==
    /\ StartRunDone /\ ProcessingThenCompleted
    /\ Len(statuses) = MaxScript
    /\ result = RunObj("completed")

\* The attempts of the finished call that failed: all of them, or all but the
\* last when the call ended with a successful attempt.
FailedAttempts == IF opError = "none" THEN attempts - 1 ELSE attempts

\* C19: when get_assistant_response has ended after at least one attempt,
\* every wait lasted the fixed delay, one wait was made per failed attempt
\* whose number is below max_retries, and no wait followed the last attempt,
\* successful or failed: the waits are one fewer than the attempts.
C19_WaitsOnlyBetweenAttempts ==
    (ResponseDone /\ attempts >= 1) =>
        /\ \A i \in 1..Len(sleepLog) : sleepLog[i] = retry_delay
        /\ Len(sleepLog) =
               Cardinality({ k \in 1..FailedAttempts : k < max_retries })
        /\ Len(sleepLog) = attempts - 1

\* Tool call i of the batch names a registered function whose call raises.
DispatchRaises(i) ==
    /\ tool_calls[i].name \in function_registry
    /\ FunctionRaises(tool_calls[i].name, tool_calls[i].arguments)

\* C18: when submit_tool_outputs has ended for a batch in which the function
\* of some tool call raises, and the service accepts the submission, no
\* exception has left it, the batch was submitted with one output per tool
\* call, and the output of each tool call whose function raises is an error
\* text, not the text of an absent result.
C18_RaisingDispatchGivesErrorText ==
    (/\ op = "submit_tool_outputs" /\ pc = "done" /\ failAt = 0
     /\ \E i \in 1..Len(tool_calls) : DispatchRaises(i))
      => /\ ~raised
         /\ Len(remoteLog) = 1
         /\ remoteLog[1].call = "runs.submit_tool_outputs"
         /\ Len(remoteLog[1].outputs) = Len(tool_calls)
         /\ \A i \in 1..Len(tool_calls) :
               DispatchRaises(i) => remoteLog[1].outputs[i].output # Str(NoneVal)

\* The custom_processors arguments the dict has been updated with.
Applied ==
    IF op = "test_lib.AssistantProcessor" /\ pc = "update"
    THEN SubSeq(suppliedLog, 1, Len(suppliedLog) - 1)
    ELSE suppliedLog

\* The constructions that supplied a custom processor for the name n.
SuppliedWith(n) ==
    { i \in 1..Len(Applied) : n \in DOMAIN MappingOrEmpty(Applied[i]) }

\* The latest of a set of constructions.
Latest(S) == CHOOSE i \in S : \A j \in S : j <= i

\* The name n is the default entry or was supplied by some construction.
EverRegistered(n) == n = "openai" \/ SuppliedWith(n) # {}

\* The class supplied last for the name n, the default class when none was.
LastSupplied(n) ==
    IF SuppliedWith(n) = {}
    THEN "AssistantTestImpl"
    ELSE MappingOrEmpty(Applied[Latest(SuppliedWith(n))])[n]

\* A construction of test_lib.AssistantProcessor has returned or raised.
TestConstructionDone == op = "test_lib.AssistantProcessor" /\ pc = "done"

\* C21: after any sequence of constructions of test_lib.AssistantProcessor
\* the dict of implementations holds the openai entry and every name any
\* construction supplied, each with the class supplied last for it (entries
\* are replaced, never removed), and a construction resolves its provider
\* against all of them, whichever construction supplied the entry.
C21_RegistrySharedAcrossInstances ==
    /\ \A n \in TestProviderNames :
          (n \in DOMAIN assistant_processor_implementations) <=> EverRegistered(n)
    /\ \A n \in DOMAIN assistant_processor_implementations :
          assistant_processor_implementations[n] = LastSupplied(n)
    /\ TestConstructionDone =>
          IF EverRegistered(provider)
          THEN ~raised /\ result.processor = LastSupplied(provider)
          ELSE raised /\ resolveError = "KeyError"

\* A third construction, given no custom processors, has resolved "custom" to
\* the class of the second construction, which replaced that of the first.
C21_Witness ==
    /\ TestConstructionDone /\ ~raised
    /\ Len(suppliedLog) = 3
    /\ suppliedLog[1] # NoneVal /\ "custom" \in DOMAIN suppliedLog[1].entries
    /\ suppliedLog[1].entries["custom"] = "CustomA"
    /\ suppliedLog[2] # NoneVal /\ "custom" \in DOMAIN suppliedLog[2].entries
    /\ suppliedLog[2].entries["custom"] = "CustomB"
    /\ suppliedLog[3] = NoneVal
    /\ provider = "custom" /\ result.processor = "CustomB"

====
